---- MODULE Spec2Model ----
(***************************************************************************)
(* Model of the trapezoidal-profile analysis of Shield-Alignment:          *)
(* core_utils.py (valley / plateau / gradient / intersection / distance    *)
(* functions) and the "trapezoidal fit" script of profile_creation.py      *)
(* (read_profile_data, process_file and the batch loop of __main__).       *)
(*                                                                         *)
(* Numbers.  Python floats are modelled as exact rationals <<n, d>> with   *)
(* d > 0 in lowest terms; rounding error is not modelled.  A Python value  *)
(* that may be None is a record [kind |-> "None"] or [kind |-> "num", ...] *)
(* / [kind |-> "array", ...]; the float specials of numpy division by zero *)
(* are [kind |-> "inf"] and [kind |-> "nan"].  A function that can raise   *)
(* returns [exc |-> <exception name or "none">, ret |-> <value>].          *)
(* Python indices are 0-based; TLA+ sequences are 1-based (see At).        *)
(***************************************************************************)
EXTENDS Integers, Sequences, FiniteSets, TLC

(***************************************************************************)
(* Program constants                                                       *)
(***************************************************************************)
PARABOLA_FIT_RANGE == 3
HorizontalSegmentSize == 9
GradientSegmentSize == 3
MinSamples == 10
SplitMargin == 6
POSITIONING_SCALE == 3000

(***************************************************************************)
(* Bounds of the model                                                     *)
(***************************************************************************)
MaxExtra == 3     \* a half-profile has at most segment_size + MaxExtra samples
MaxCoord == 3     \* numbers passed to the intersection and distance functions: |n| <= MaxCoord
MaxFiles == 3     \* grouped profile files in the selected folder

(***************************************************************************)
(* Python values                                                           *)
(***************************************************************************)
None == [kind |-> "None"]
Unset == [kind |-> "unset"]
Inf == [kind |-> "inf"]
NaN == [kind |-> "nan"]
Num(r) == [kind |-> "num", val |-> r]
Arr(s) == [kind |-> "array", val |-> s]
Ok(v) == [exc |-> "none", ret |-> v]
Raise(e) == [exc |-> e, ret |-> Unset]

At(s, i) == s[i + 1]

(***************************************************************************)
(* Exact rational arithmetic                                               *)
(***************************************************************************)
Abs(a) == IF a < 0 THEN -a ELSE a
Min2(a, b) == IF a < b THEN a ELSE b
Max2(a, b) == IF a > b THEN a ELSE b

RECURSIVE GCD(_, _)
GCD(a, b) == IF b = 0 THEN a ELSE GCD(b, a % b)

Rat(n, d) ==
    LET g == GCD(Abs(n), Abs(d))
        s == IF d < 0 THEN -1 ELSE 1
    IN  <<(s * n) \div g, (s * d) \div g>>

RInt(a) == <<a, 1>>
RAdd(p, q) == Rat(p[1] * q[2] + q[1] * p[2], p[2] * q[2])
RSub(p, q) == Rat(p[1] * q[2] - q[1] * p[2], p[2] * q[2])
RMul(p, q) == Rat(p[1] * q[1], p[2] * q[2])
RDiv(p, q) == Rat(p[1] * q[2], p[2] * q[1])
RAbs(p) == <<Abs(p[1]), p[2]>>
RLess(p, q) == p[1] * q[2] < q[1] * p[2]

RECURSIVE Pow(_, _)
Pow(a, k) == IF k = 0 THEN 1 ELSE a * Pow(a, k - 1)

RECURSIVE SumOver(_, _)
SumOver(f, S) ==
    IF S = {} THEN 0
    ELSE LET e == CHOOSE e \in S : TRUE IN f[e] + SumOver(f, S \ {e})

(***************************************************************************)
(* numpy helpers                                                           *)
(***************************************************************************)
\* s[start:stop] with Python's treatment of negative and out-of-range bounds
Clamp(i, n) == IF i < 0 THEN (IF i + n < 0 THEN 0 ELSE i + n) ELSE (IF i > n THEN n ELSE i)
Slice(s, start, stop) ==
    LET a == Clamp(start, Len(s))
        b == Clamp(stop, Len(s))
    IN  IF a < b THEN SubSeq(s, a + 1, b) ELSE <<>>
SliceTo(s, stop) == Slice(s, 0, stop)
SliceFrom(s, start) == Slice(s, start, Len(s))

\* np.argmax / np.argmin of a non-empty array: the first index of the extreme
ArgMax(y) == CHOOSE i \in 0..(Len(y) - 1) :
                /\ \A j \in 0..(Len(y) - 1) : At(y, j) <= At(y, i)
                /\ \A j \in 0..(i - 1) : At(y, j) < At(y, i)
ArgMin(y) == CHOOSE i \in 0..(Len(y) - 1) :
                /\ \A j \in 0..(Len(y) - 1) : At(y, j) >= At(y, i)
                /\ \A j \in 0..(i - 1) : At(y, j) > At(y, i)

\* np.polyfit(x, y, 1): the ordinary least-squares line, <<slope, intercept>>
Sum(xs) == SumOver(xs, 1..Len(xs))
SumProd(xs, ys) == SumOver([i \in 1..Len(xs) |-> xs[i] * ys[i]], 1..Len(xs))
LeastSquaresLine(n, Sx, Sy, Sxx, Sxy) ==
    <<Rat(n * Sxy - Sx * Sy, n * Sxx - Sx * Sx), Rat(Sy * Sxx - Sx * Sxy, n * Sxx - Sx * Sx)>>
polyfit(xs, ys) ==
    LeastSquaresLine(Len(xs), Sum(xs), Sum(ys), SumProd(xs, xs), SumProd(xs, ys))

\* np.mean of a non-empty array
mean(ys) == Rat(Sum(ys), Len(ys))

(***************************************************************************)
(* core_utils.find_horizontal_segment                                      *)
(***************************************************************************)
\* One iteration of the loop over window starts.  The loop state st is
\* [i, min_slope, best_x, best_y]; min_slope is Inf or Num.
\* if abs(slope) < min_slope
HorizontalUpdate(st, segment_x, segment_y, slope) ==
    IF st.min_slope = Inf \/ RLess(RAbs(slope), st.min_slope.val)
    THEN [i |-> st.i + 1, min_slope |-> Num(RAbs(slope)),
          best_x |-> Arr(segment_x), best_y |-> Arr(segment_y)]
    ELSE [st EXCEPT !.i = st.i + 1]

HorizontalFit(st, segment_x, segment_y) ==
    HorizontalUpdate(st, segment_x, segment_y, polyfit(segment_x, segment_y)[1])

\* variant: the window is fitted whether or not it holds the maximum
HorizontalStep_AnyWindow(x, y, segment_size, max_y_index, st) ==
    HorizontalFit(st, Slice(x, st.i, st.i + segment_size),
                      Slice(y, st.i, st.i + segment_size))

\* variant: range(i, i + segment_size - 1), the window's last sample is left out
HorizontalStep_ShortRange(x, y, segment_size, max_y_index, st) ==
    IF ~(max_y_index \in st.i..(st.i + segment_size - 2)) THEN [st EXCEPT !.i = st.i + 1]
    ELSE HorizontalFit(st, Slice(x, st.i, st.i + segment_size),
                           Slice(y, st.i, st.i + segment_size))

HorizontalStep(x, y, segment_size, max_y_index, st) ==
    IF ~(max_y_index \in st.i..(st.i + segment_size - 1)) THEN [st EXCEPT !.i = st.i + 1]
    ELSE HorizontalFit(st, Slice(x, st.i, st.i + segment_size),
                           Slice(y, st.i, st.i + segment_size))

RECURSIVE HorizontalLoop(_, _, _, _, _)
HorizontalLoop(x, y, segment_size, max_y_index, st) ==
    IF st.i >= Len(x) - segment_size + 1 THEN st
    ELSE HorizontalLoop(x, y, segment_size, max_y_index,
                        HorizontalStep(x, y, segment_size, max_y_index, st))

HorizontalResult(st) == Ok(<<st.best_x, st.best_y>>)

find_horizontal_segment(x, y, segment_size) ==
    IF Len(y) = 0 THEN Raise("ValueError")   \* np.argmax of an empty sequence
    ELSE HorizontalResult(
            HorizontalLoop(x, y, segment_size, ArgMax(y),
                [i |-> 0, min_slope |-> Inf, best_x |-> None, best_y |-> None]))

(***************************************************************************)
(* core_utils.find_greatest_gradient_segments                              *)
(***************************************************************************)
NegInf == [kind |-> "-inf"]

GradientInit ==
    [i |-> 0, max_positive_gradient |-> NegInf, max_negative_gradient |-> Inf,
     pos_x |-> None, pos_y |-> None, pos_slope |-> None, pos_intercept |-> None,
     neg_x |-> None, neg_y |-> None, neg_slope |-> None, neg_intercept |-> None]

\* variant: slope >= max_positive_gradient, the last of equal windows is kept
GradientPos_LastWins(st, segment_x, segment_y, fit) ==
    IF st.max_positive_gradient = NegInf \/ ~RLess(fit[1], st.max_positive_gradient.val)
    THEN [st EXCEPT !.max_positive_gradient = Num(fit[1]),
                    !.pos_x = Arr(segment_x), !.pos_y = Arr(segment_y),
                    !.pos_slope = Num(fit[1]), !.pos_intercept = Num(fit[2])]
    ELSE st

\* if slope > max_positive_gradient
GradientPos(st, segment_x, segment_y, fit) ==
    IF st.max_positive_gradient = NegInf \/ RLess(st.max_positive_gradient.val, fit[1])
    THEN [st EXCEPT !.max_positive_gradient = Num(fit[1]),
                    !.pos_x = Arr(segment_x), !.pos_y = Arr(segment_y),
                    !.pos_slope = Num(fit[1]), !.pos_intercept = Num(fit[2])]
    ELSE st

\* variant: only a window of negative slope is accepted as steepest-negative
GradientNeg_OnlyNegative(st, segment_x, segment_y, fit) ==
    IF RLess(fit[1], RInt(0))
       /\ (st.max_negative_gradient = Inf \/ RLess(fit[1], st.max_negative_gradient.val))
    THEN [st EXCEPT !.max_negative_gradient = Num(fit[1]),
                    !.neg_x = Arr(segment_x), !.neg_y = Arr(segment_y),
                    !.neg_slope = Num(fit[1]), !.neg_intercept = Num(fit[2])]
    ELSE st

\* if slope < max_negative_gradient
GradientNeg(st, segment_x, segment_y, fit) ==
    IF st.max_negative_gradient = Inf \/ RLess(fit[1], st.max_negative_gradient.val)
    THEN [st EXCEPT !.max_negative_gradient = Num(fit[1]),
                    !.neg_x = Arr(segment_x), !.neg_y = Arr(segment_y),
                    !.neg_slope = Num(fit[1]), !.neg_intercept = Num(fit[2])]
    ELSE st

\* one iteration of the loop over window starts, st.i the window start
GradientFit(st, segment_x, segment_y, fit) ==
    [GradientNeg(GradientPos(st, segment_x, segment_y, fit), segment_x, segment_y, fit)
        EXCEPT !.i = st.i + 1]

GradientWindow(st, segment_x, segment_y) ==
    GradientFit(st, segment_x, segment_y, polyfit(segment_x, segment_y))

GradientStep(x, y, segment_size, st) ==
    GradientWindow(st, Slice(x, st.i, st.i + segment_size),
                       Slice(y, st.i, st.i + segment_size))

RECURSIVE GradientLoop(_, _, _, _)
GradientLoop(x, y, segment_size, st) ==
    IF st.i >= Len(x) - segment_size + 1 THEN st
    ELSE GradientLoop(x, y, segment_size, GradientStep(x, y, segment_size, st))

\* the returned 10-tuple, as a record of its named components
GradientResult(st) ==
    [max_positive_gradient |-> st.max_positive_gradient,
     max_negative_gradient |-> st.max_negative_gradient,
     pos_x |-> st.pos_x, pos_y |-> st.pos_y,
     pos_slope |-> st.pos_slope, pos_intercept |-> st.pos_intercept,
     neg_x |-> st.neg_x, neg_y |-> st.neg_y,
     neg_slope |-> st.neg_slope, neg_intercept |-> st.neg_intercept]

find_greatest_gradient_segments(x, y, segment_size) ==
    IF Len(x) < segment_size
    THEN [max_positive_gradient |-> None, max_negative_gradient |-> None,
          pos_x |-> None, pos_y |-> None, pos_slope |-> None, pos_intercept |-> None,
          neg_x |-> None, neg_y |-> None, neg_slope |-> None, neg_intercept |-> None]
    ELSE GradientResult(GradientLoop(x, y, segment_size, GradientInit))

(***************************************************************************)
(* core_utils.find_intersection_with_horizontal                            *)
(***************************************************************************)
\* variant: the intercept is added instead of subtracted
find_intersection_with_horizontal_AddsIntercept(pos_slope, pos_intercept, horizontal_y_values) ==
    IF horizontal_y_values = None \/ Len(horizontal_y_values.val) = 0 THEN Ok(None)
    ELSE IF pos_slope # None /\ pos_slope.val = RInt(0) THEN Ok(None)
    ELSE IF pos_intercept = None \/ pos_slope = None THEN Raise("TypeError")
    ELSE Ok(Num(RDiv(RAdd(mean(horizontal_y_values.val), pos_intercept.val), pos_slope.val)))

find_intersection_with_horizontal(pos_slope, pos_intercept, horizontal_y_values) ==
    IF horizontal_y_values = None \/ Len(horizontal_y_values.val) = 0 THEN Ok(None)
    ELSE IF pos_slope # None /\ pos_slope.val = RInt(0) THEN Ok(None)
    \* (horizontal_y_avg - pos_intercept) / pos_slope on a None operand
    ELSE IF pos_intercept = None \/ pos_slope = None THEN Raise("TypeError")
    ELSE Ok(Num(RDiv(RSub(mean(horizontal_y_values.val), pos_intercept.val), pos_slope.val)))

(***************************************************************************)
(* core_utils.outer_distance / inner_distance                              *)
(***************************************************************************)
\* distance / abs(first - second) if first != second else 0
RelDistance(distance, first, second) ==
    IF first # second THEN RDiv(distance, RAbs(RSub(first, second))) ELSE RInt(0)

\* variant: distance_left without abs()
outer_distance_Signed(intersection_pos_first, intersection_neg_second, vertex_x) ==
    IF intersection_pos_first = None \/ intersection_neg_second = None \/ vertex_x = None
    THEN <<None, None>>
    ELSE <<Num(RelDistance(RSub(intersection_pos_first.val, vertex_x.val),
                           intersection_pos_first.val, intersection_neg_second.val)),
           Num(RelDistance(RAbs(RSub(intersection_neg_second.val, vertex_x.val)),
                           intersection_pos_first.val, intersection_neg_second.val))>>

\* variant: the span without abs()
outer_distance_SignedSpan(intersection_pos_first, intersection_neg_second, vertex_x) ==
    IF intersection_pos_first = None \/ intersection_neg_second = None \/ vertex_x = None
    THEN <<None, None>>
    ELSE IF intersection_pos_first = intersection_neg_second THEN <<Num(RInt(0)), Num(RInt(0))>>
    ELSE <<Num(RDiv(RAbs(RSub(intersection_pos_first.val, vertex_x.val)),
                    RSub(intersection_pos_first.val, intersection_neg_second.val))),
           Num(RDiv(RAbs(RSub(intersection_neg_second.val, vertex_x.val)),
                    RSub(intersection_pos_first.val, intersection_neg_second.val)))>>

outer_distance(intersection_pos_first, intersection_neg_second, vertex_x) ==
    IF intersection_pos_first = None \/ intersection_neg_second = None \/ vertex_x = None
    THEN <<None, None>>
    ELSE \* (rel_distance_left, rel_distance_right), distance_left being
         \* abs(intersection_pos_first - vertex_x)
         <<Num(RelDistance(RAbs(RSub(intersection_pos_first.val, vertex_x.val)),
                           intersection_pos_first.val, intersection_neg_second.val)),
           Num(RelDistance(RAbs(RSub(intersection_neg_second.val, vertex_x.val)),
                           intersection_pos_first.val, intersection_neg_second.val))>>

inner_distance(intersection_pos_second, intersection_neg_first, vertex_x) ==
    IF intersection_pos_second = None \/ intersection_neg_first = None \/ vertex_x = None
    THEN <<None, None>>
    ELSE \* (rel_distance_left, rel_distance_right), distance_left being
         \* abs(intersection_neg_first - vertex_x)
         <<Num(RelDistance(RAbs(RSub(intersection_neg_first.val, vertex_x.val)),
                           intersection_pos_second.val, intersection_neg_first.val)),
           Num(RelDistance(RAbs(RSub(intersection_pos_second.val, vertex_x.val)),
                           intersection_pos_second.val, intersection_neg_first.val))>>

(***************************************************************************)
(* core_utils.fit_parabola / find_valley_and_fit_parabola                  *)
(***************************************************************************)
Det3(m) ==
      m[1][1] * (m[2][2] * m[3][3] - m[2][3] * m[3][2])
    - m[1][2] * (m[2][1] * m[3][3] - m[2][3] * m[3][1])
    + m[1][3] * (m[2][1] * m[3][2] - m[2][2] * m[3][1])

\* scipy.optimize.curve_fit(parabola, x, y) when it converges: the least-squares
\* (a, b, c), the exact solution of the normal equations (Cramer's rule).  The
\* moments are taken in u = x - x[0], which keeps them small, and the
\* coefficients are mapped back to x.
Moment(x, y, x0, k) == SumOver([i \in 1..Len(x) |-> Pow(x[i] - x0, k) * y[i]], 1..Len(x))
Ones(x) == [i \in 1..Len(x) |-> 1]

\* S[k] = sum u^k (k = 0..4), T[k] = sum u^k y (k = 0..2), 1-based in k + 1
Cramer(x0, S, T) ==
    [x0 |-> x0,
     D  |-> Det3(<<<<S[5], S[4], S[3]>>, <<S[4], S[3], S[2]>>, <<S[3], S[2], S[1]>>>>),
     Da |-> Det3(<<<<T[3], S[4], S[3]>>, <<T[2], S[3], S[2]>>, <<T[1], S[2], S[1]>>>>),
     Db |-> Det3(<<<<S[5], T[3], S[3]>>, <<S[4], T[2], S[2]>>, <<S[3], T[1], S[1]>>>>),
     Dc |-> Det3(<<<<S[5], S[4], T[3]>>, <<S[4], S[3], T[2]>>, <<S[3], S[2], T[1]>>>>)]

Unshift(x0, au, bu, cu) ==
    <<au,
      RSub(bu, RMul(RInt(2 * x0), au)),
      RAdd(RSub(cu, RMul(RInt(x0), bu)), RMul(RInt(x0 * x0), au))>>

Coefficients(m) == Unshift(m.x0, Rat(m.Da, m.D), Rat(m.Db, m.D), Rat(m.Dc, m.D))

curve_fit(x, y) ==
    Coefficients(Cramer(x[1],
        [k \in 1..5 |-> Moment(x, Ones(x), x[1], k - 1)],
        [k \in 1..3 |-> Moment(x, y, x[1], k - 1)]))

parabola(x, a, b, c) == RAdd(RAdd(RMul(a, RMul(x, x)), RMul(b, x)), c)

\* lines 24-27, with numpy's float division: x/0 is inf (nan for 0/0), with a
\* warning only
Vertex(params, a, b, c, vertex_x) ==
    <<Arr(params), Num(vertex_x), Num(parabola(vertex_x, a, b, c))>>

FitResult(params, a, b, c) ==
    IF a = RInt(0)
    THEN <<Arr(params), (IF b = RInt(0) THEN NaN ELSE Inf), NaN>>
    ELSE Vertex(params, a, b, c, RDiv(<<-b[1], b[2]>>, RMul(RInt(2), a)))

Unpack(params) == FitResult(params, params[1], params[2], params[3])

\* converged = FALSE: curve_fit raises, which fit_parabola catches
fit_parabola(x, y, converged) ==
    IF ~converged THEN <<None, None, None>>
    ELSE Unpack(curve_fit(x, y))

\* scipy.signal.find_peaks(-data, prominence): the middle of every flat run that
\* is strictly lower than both of its neighbours (the first and the last sample
\* are never peaks).  On integer samples such a run has prominence >= 1, so the
\* prominence threshold 0.5 removes none of them.
find_valleys(data) ==
    LET n == Len(data)
    IN  {(l + r) \div 2 : <<l, r>> \in
            {p \in (1..(n - 2)) \X (1..(n - 2)) :
                /\ p[1] <= p[2]
                /\ \A j \in p[1]..p[2] : At(data, j) = At(data, p[1])
                /\ At(data, p[1] - 1) > At(data, p[1])
                /\ At(data, p[2] + 1) > At(data, p[2])}}

\* valleys[np.argmin(data[valleys])], or np.argmin(data) without valleys
LowestValley(data, valleys) ==
    IF valleys = {} THEN ArgMin(data)
    ELSE CHOOSE v \in valleys :
            /\ \A w \in valleys : At(data, w) >= At(data, v)
            /\ \A w \in valleys : w < v => At(data, w) > At(data, v)

FitSlice(fit_x, fit_y, converged) ==
    IF Len(fit_x) < 3 THEN <<None, None, None>>
    ELSE fit_parabola(fit_x, fit_y, converged)

FitAround(x, data, lowest_valley_index, converged) ==
    FitSlice(Slice(x, Max2(0, lowest_valley_index - PARABOLA_FIT_RANGE),
                      Min2(Len(data), lowest_valley_index + PARABOLA_FIT_RANGE + 1)),
             Slice(data, Max2(0, lowest_valley_index - PARABOLA_FIT_RANGE),
                         Min2(Len(data), lowest_valley_index + PARABOLA_FIT_RANGE + 1)),
             converged)

find_valley_and_fit_parabola(x, data, converged) ==
    FitAround(x, data, LowestValley(data, find_valleys(data)), converged)

(***************************************************************************)
(* profile_creation.py ("trapezoidal fit"): read_profile_data, process_file *)
(***************************************************************************)
\* A file is [readable, rows]: readable = FALSE stands for a file that cannot
\* be opened or holds a token float() rejects; rows are the non-blank lines,
\* each the tuple of its numbers.
read_profile_data(file) ==
    IF ~file.readable THEN None          \* except Exception: return None
    ELSE IF file.rows = <<>> THEN None   \* empty file
    ELSE Arr(file.rows)

\* len(list(zip(*data))): the length of the shortest row
ZipWidth(data) ==
    CHOOSE k \in {Len(data[i]) : i \in 1..Len(data)} :
        \A i \in 1..Len(data) : Len(data[i]) >= k

Column(data, c) == [i \in 1..Len(data) |-> data[i][c]]

\* int(f) of a finite float: truncation towards zero
Trunc(r) == IF r[1] >= 0 THEN r[1] \div r[2] ELSE -((-r[1]) \div r[2])

\* The locals of one process_file call.  status is "skipped" (return None),
\* "raised" (an exception left the function, exc names it) or "ok" (the tuple
\* was returned); stages are the core functions that were called.
NoLocals ==
    [status |-> "skipped", exc |-> "none", stages |-> {},
     x |-> Unset, y |-> Unset,
     parabola_params |-> Unset, vertex_x |-> Unset, vertex_y |-> Unset,
     split_index |-> Unset,
     first_half_x |-> Unset, first_half_y |-> Unset,
     second_half_x |-> Unset, second_half_y |-> Unset,
     best_first_y |-> Unset, best_second_y |-> Unset,
     grad_first |-> Unset, grad_second |-> Unset,
     intersection_pos_first |-> Unset, intersection_neg_first |-> Unset,
     intersection_pos_second |-> Unset, intersection_neg_second |-> Unset,
     outer_left |-> Unset, outer_right |-> Unset,
     inner_left |-> Unset, inner_right |-> Unset,
     distance |-> Unset]

Raised(l, e) == [l EXCEPT !.status = "raised", !.exc = e]
Called(l, f) == [l EXCEPT !.stages = @ \cup {f}]

\* line 219: (outer_left + inner_left) / 2, a TypeError on a None operand
Average(l) ==
    IF l.outer_left = None \/ l.inner_left = None THEN Raised(l, "TypeError")
    ELSE [l EXCEPT !.status = "ok",
                   !.distance = Num(RDiv(RAdd(l.outer_left.val, l.inner_left.val), RInt(2)))]

Metrics(l, outer, inner) ==
    Average([l EXCEPT !.stages = @ \cup {"outer_distance", "inner_distance"},
                      !.outer_left = outer[1], !.outer_right = outer[2],
                      !.inner_left = inner[1], !.inner_right = inner[2]])

\* lines 215-216
ProcessMetrics(l) ==
    Metrics(l,
        outer_distance(l.intersection_pos_first, l.intersection_neg_second, l.vertex_x),
        inner_distance(l.intersection_neg_first, l.intersection_pos_second, l.vertex_x))

Intersections(l, pf, nf, ps, ns) ==
    IF pf.exc # "none" THEN Raised(l, pf.exc)
    ELSE IF nf.exc # "none" THEN Raised(l, nf.exc)
    ELSE IF ps.exc # "none" THEN Raised(l, ps.exc)
    ELSE IF ns.exc # "none" THEN Raised(l, ns.exc)
    ELSE ProcessMetrics([l EXCEPT !.intersection_pos_first = pf.ret,
                                  !.intersection_neg_first = nf.ret,
                                  !.intersection_pos_second = ps.ret,
                                  !.intersection_neg_second = ns.ret])

\* lines 209-212: the four intersections, in the order of the calls
ProcessIntersections(l) ==
    Intersections(Called(l, "find_intersection_with_horizontal"),
        find_intersection_with_horizontal(
            l.grad_first.pos_slope, l.grad_first.pos_intercept, l.best_first_y),
        find_intersection_with_horizontal(
            l.grad_first.neg_slope, l.grad_first.neg_intercept, l.best_first_y),
        find_intersection_with_horizontal(
            l.grad_second.pos_slope, l.grad_second.pos_intercept, l.best_second_y),
        find_intersection_with_horizontal(
            l.grad_second.neg_slope, l.grad_second.neg_intercept, l.best_second_y))

\* lines 202-206: the gradient segments of the two halves
ProcessGradients(l) ==
    ProcessIntersections(
        [l EXCEPT !.stages = @ \cup {"find_greatest_gradient_segments"},
                  !.grad_first = find_greatest_gradient_segments(
                                     l.first_half_x, l.first_half_y, GradientSegmentSize),
                  !.grad_second = find_greatest_gradient_segments(
                                     l.second_half_x, l.second_half_y, GradientSegmentSize)])

Plateaus(l, h1, h2) ==
    IF h1.exc # "none" THEN Raised(l, h1.exc)
    ELSE IF h2.exc # "none" THEN Raised(l, h2.exc)
    ELSE ProcessGradients([l EXCEPT !.best_first_y = h1.ret[2], !.best_second_y = h2.ret[2]])

\* lines 198-199: the plateau of each half
ProcessSegments(l) ==
    Plateaus(Called(l, "find_horizontal_segment"),
        find_horizontal_segment(l.first_half_x, l.first_half_y, HorizontalSegmentSize),
        find_horizontal_segment(l.second_half_x, l.second_half_y, HorizontalSegmentSize))

Halves(l, split_index) ==
    ProcessSegments(
        [l EXCEPT !.split_index = split_index,
                  !.first_half_x = SliceTo(l.x, split_index - SplitMargin),
                  !.first_half_y = SliceTo(l.y, split_index - SplitMargin),
                  !.second_half_x = SliceFrom(l.x, split_index + SplitMargin),
                  !.second_half_y = SliceFrom(l.y, split_index + SplitMargin)])

\* lines 193-195: the split at the vertex
ProcessSplit(l) ==
    IF l.vertex_x = Inf THEN Raised(l, "OverflowError")    \* int(inf)
    ELSE IF l.vertex_x = NaN THEN Raised(l, "ValueError")  \* int(nan)
    ELSE Halves(l, Trunc(l.vertex_x.val))

\* lines 187-190
Valley(l, fit) ==
    IF fit[2] = None THEN [l EXCEPT !.parabola_params = fit[1], !.vertex_x = fit[2],
                                    !.vertex_y = fit[3]]
    ELSE ProcessSplit([l EXCEPT !.parabola_params = fit[1], !.vertex_x = fit[2],
                                !.vertex_y = fit[3]])

\* lines 182-187
ProcessValley(x, y, converged) ==
    Valley([Called(NoLocals, "find_valley_and_fit_parabola") EXCEPT !.x = x, !.y = y],
           find_valley_and_fit_parabola(x, y, converged))

\* variant: only an unreadable file is rejected
Unzip_NoLengthCheck(data, converged) ==
    IF data = None THEN NoLocals
    ELSE IF ZipWidth(data.val) # 2 THEN Raised(NoLocals, "ValueError")
    ELSE ProcessValley(Column(data.val, 1), Column(data.val, 2), converged)

\* lines 177-182
Unzip(data, converged) ==
    IF data = None \/ Len(data.val) < MinSamples THEN NoLocals
    ELSE IF ZipWidth(data.val) # 2 THEN Raised(NoLocals, "ValueError")  \* x, y = zip(*data)
    ELSE ProcessValley(Column(data.val, 1), Column(data.val, 2), converged)

process_file(file, converged) == Unzip(read_profile_data(file), converged)

(***************************************************************************)
(* The profile files the model reads                                       *)
(***************************************************************************)
\* y of the two plateaus, their distance from the valley, y outside the structure
Shape == [shoulder |-> 8, edge |-> 16, floor |-> 2]

\* A trapezoidal profile of n samples, x = 0..n-1: a valley at index `valley`,
\* edges of `step` per sample, two plateaus, and falling outer edges.  step = 0
\* is the constant profile.
TrapezoidY(n, valley, step) ==
    [i \in 1..n |->
        LET d == Abs(i - 1 - valley)
        IN  Min2(Min2(step * d, Shape.shoulder),
                 Max2(Shape.floor, Shape.shoulder - step * (d - Shape.edge)))]

\* the rows of a file of `cols` columns: y alone, (x, y), or (x, y, 0)
TrapezoidRows(cols, n, valley, step) ==
    LET y == TrapezoidY(n, valley, step)
    IN  [i \in 1..n |->
            IF cols = 1 THEN <<y[i]>>
            ELSE IF cols = 2 THEN <<i - 1, y[i]>>
            ELSE <<i - 1, y[i], 0>>]

Columns == {1, 2, 3}
Lengths == {8, 9, 10, 12, 39, 41}
ValleyAt == {3, 6, 10, 19, 20}
Steps == {0, 1, 2}

Catalogue ==
    {[readable |-> FALSE, rows |-> <<>>], [readable |-> TRUE, rows |-> <<>>]}
    \cup {[readable |-> TRUE, rows |-> TrapezoidRows(c, n, v, s)] :
            c \in Columns, n \in Lengths, v \in ValleyAt, s \in Steps}

\* process_file on every file of the catalogue, with and without a converged fit
Analysis == [f \in Catalogue, converged \in BOOLEAN |-> process_file(f, converged)]

(***************************************************************************)
(* State                                                                   *)
(***************************************************************************)
VARIABLES
    pc,             \* batch run: "start", "loop", "done", "exited", "aborted"; "call" in the function specifications
    directory,      \* the selected folder: [selected, groups, other]
    grouped_files,  \* group -> number of files of the group
    group,          \* the group the loop is at
    index,          \* files of that group already processed
    distances,      \* the group's list of distances
    reports,        \* the lines printed per group
    result,         \* outcome of the last process_file call of the batch run
    processed,      \* number of process_file calls made by the batch run
    call,           \* function specifications: the arguments of the call
    ret             \* function specifications: what the call returned

vars == <<pc, directory, grouped_files, group, index, distances, reports, result,
          processed, call, ret>>

batch_vars == <<directory, grouped_files, group, index, distances, reports, result, processed>>

Groups == 1..4

(***************************************************************************)
(* profile_creation.py ("trapezoidal fit"): the batch run of __main__      *)
(***************************************************************************)
TotalFiles(groups) == SumOver(groups, Groups)

\* The folder: whether one was selected, how many '*Profile.txt' files carry a
\* three-digit number starting with 1..4, and how many match no group.
Directories ==
    {d \in [selected : BOOLEAN, groups : [Groups -> 0..MaxFiles], other : 0..1] :
        /\ TotalFiles(d.groups) <= MaxFiles
        /\ (~d.selected => TotalFiles(d.groups) = 0 /\ d.other = 0)}

BatchInit ==
    /\ pc = "start"
    /\ directory \in Directories
    /\ grouped_files = [g \in Groups |-> 0]
    /\ group = 1
    /\ index = 0
    /\ distances = <<>>
    /\ reports = <<>>
    /\ result = Unset
    /\ processed = 0

Init == BatchInit /\ call = Unset /\ ret = Unset

\* lines 236-238: no folder selected, exit()
NoFolderSelected ==
    /\ pc = "start"
    /\ ~directory.selected
    /\ pc' = "exited"
    /\ UNCHANGED <<batch_vars, call, ret>>

\* lines 241-246: no file matches '*Profile.txt', exit()
NoProfileFiles ==
    /\ pc = "start"
    /\ directory.selected
    /\ TotalFiles(directory.groups) + directory.other = 0
    /\ pc' = "exited"
    /\ UNCHANGED <<batch_vars, call, ret>>

\* lines 248-257: group the files by the first digit of their number
GroupFiles ==
    /\ pc = "start"
    /\ directory.selected
    /\ TotalFiles(directory.groups) + directory.other > 0
    /\ grouped_files' = directory.groups
    /\ pc' = "loop"
    /\ UNCHANGED <<directory, group, index, distances, reports, result, processed, call, ret>>

\* the for loop over the groups moves on
NextGroup ==
    /\ pc' = IF group = 4 THEN "done" ELSE "loop"
    /\ group' = IF group = 4 THEN group ELSE group + 1
    /\ index' = 0
    /\ distances' = <<>>

\* lines 261-262: a group without files
SkipEmptyGroup ==
    /\ pc = "loop"
    /\ grouped_files[group] = 0
    /\ NextGroup
    /\ UNCHANGED <<directory, grouped_files, reports, result, processed, call, ret>>

Summary(r) == [status |-> r.status, exc |-> r.exc, distance |-> r.distance]

\* lines 267-271: process_file returns (None or the tuple)
ProcessFile ==
    /\ pc = "loop"
    /\ index < grouped_files[group]
    /\ \E file \in Catalogue, converged \in BOOLEAN :
          LET r == Analysis[file, converged]
          IN  /\ r.status # "raised"
              /\ result' = Summary(r)
              /\ distances' = IF r.status = "ok" THEN Append(distances, r.distance.val)
                              ELSE distances
    /\ index' = index + 1
    /\ processed' = processed + 1
    /\ UNCHANGED <<pc, directory, grouped_files, group, reports, call, ret>>

\* lines 268, 281-282: process_file raises; the except clause around the whole
\* run prints the error and the script ends
ProcessFileRaises ==
    /\ pc = "loop"
    /\ index < grouped_files[group]
    /\ \E file \in Catalogue, converged \in BOOLEAN :
          LET r == Analysis[file, converged]
          IN  /\ r.status = "raised"
              /\ result' = Summary(r)
    /\ processed' = processed + 1
    /\ pc' = "aborted"
    /\ UNCHANGED <<directory, grouped_files, group, index, distances, reports, call, ret>>

RECURSIVE RSum(_)
RSum(ds) == IF ds = <<>> THEN RInt(0) ELSE RAdd(Head(ds), RSum(Tail(ds)))

\* lines 274-279
GroupReport(g, ds) ==
    IF ds # <<>>
    THEN LET average_distance ==
                 RMul(RInt(POSITIONING_SCALE),
                      RSub(RDiv(RSum(ds), RInt(Len(ds))), <<1, 2>>))
         IN  [group |-> g, valid |-> TRUE, average |-> RAbs(average_distance),
              direction |-> IF RLess(RInt(0), average_distance) THEN "right" ELSE "left"]
    ELSE [group |-> g, valid |-> FALSE, average |-> RInt(0), direction |-> "none"]

ReportGroup ==
    /\ pc = "loop"
    /\ grouped_files[group] > 0
    /\ index = grouped_files[group]
    /\ reports' = Append(reports, GroupReport(group, distances))
    /\ NextGroup
    /\ UNCHANGED <<directory, grouped_files, result, processed, call, ret>>

Next ==
    \/ NoFolderSelected
    \/ NoProfileFiles
    \/ GroupFiles
    \/ SkipEmptyGroup
    \/ ProcessFile
    \/ ProcessFileRaises
    \/ ReportGroup

Spec == Init /\ [][Next]_vars

(***************************************************************************)
(* The functions called on their own: the arguments are drawn in the       *)
(* initial state, one action per function applies it.                      *)
(***************************************************************************)
Idle ==
    /\ directory = [selected |-> FALSE, groups |-> [g \in Groups |-> 0], other |-> 0]
    /\ grouped_files = [g \in Groups |-> 0]
    /\ group = 1
    /\ index = 0
    /\ distances = <<>>
    /\ reports = <<>>
    /\ result = Unset
    /\ processed = 0

\* ---- find_horizontal_segment, find_greatest_gradient_segments ----
SegmentSizes == {GradientSegmentSize, HorizontalSegmentSize}
Levels(segment_size) == IF segment_size = HorizontalSegmentSize THEN 0..1 ELSE 0..4
XGrids == {<<0, 1>>, <<7, 2>>}      \* <<first x, spacing>>

\* the samples of a half-profile on grid g
GridX(n, g) == [i \in 1..n |-> g[1] + g[2] * (i - 1)]

InitSegments ==
    /\ Idle
    /\ pc = "call"
    /\ \E w \in SegmentSizes : \E n \in 0..(w + MaxExtra) :
          \E y \in [1..n -> Levels(w)], g \in XGrids :
              call = [x |-> GridX(n, g), y |-> y, segment_size |-> w]
    /\ ret = Unset

CallFindHorizontalSegment ==
    /\ pc = "call"
    /\ pc' = "return"
    /\ ret' = [fn |-> "find_horizontal_segment",
               val |-> find_horizontal_segment(call.x, call.y, call.segment_size)]
    /\ UNCHANGED <<batch_vars, call>>

CallFindGreatestGradientSegments ==
    /\ pc = "call"
    /\ pc' = "return"
    /\ ret' = [fn |-> "find_greatest_gradient_segments",
               val |-> find_greatest_gradient_segments(call.x, call.y, call.segment_size)]
    /\ UNCHANGED <<batch_vars, call>>

NextSegments == CallFindHorizontalSegment \/ CallFindGreatestGradientSegments

SpecSegments == InitSegments /\ [][NextSegments]_vars

\* ---- find_intersection_with_horizontal ----
Numbers == {Rat(n, d) : n \in (-MaxCoord)..MaxCoord, d \in 1..2}
OptNumbers == {None} \cup {Num(r) : r \in Numbers}
PlateauValues ==
    {None} \cup {Arr(ys) : ys \in UNION {[1..n -> 0..MaxCoord] : n \in 0..2}}

IntersectionCalls ==
    [pos_slope : OptNumbers, pos_intercept : OptNumbers, horizontal_y_values : PlateauValues]

InitIntersection == Idle /\ pc = "call" /\ call \in IntersectionCalls /\ ret = Unset

CallFindIntersectionWithHorizontal ==
    /\ pc = "call"
    /\ pc' = "return"
    /\ ret' = [fn |-> "find_intersection_with_horizontal",
               val |-> find_intersection_with_horizontal(
                           call.pos_slope, call.pos_intercept, call.horizontal_y_values)]
    /\ UNCHANGED <<batch_vars, call>>

NextIntersection == CallFindIntersectionWithHorizontal

SpecIntersection == InitIntersection /\ [][NextIntersection]_vars

\* ---- outer_distance, inner_distance ----
DistanceCalls == [first : OptNumbers, second : OptNumbers, vertex_x : OptNumbers]

InitDistance == Idle /\ pc = "call" /\ call \in DistanceCalls /\ ret = Unset

CallOuterDistance ==
    /\ pc = "call"
    /\ pc' = "return"
    /\ ret' = [fn |-> "outer_distance",
               val |-> outer_distance(call.first, call.second, call.vertex_x)]
    /\ UNCHANGED <<batch_vars, call>>

CallInnerDistance ==
    /\ pc = "call"
    /\ pc' = "return"
    /\ ret' = [fn |-> "inner_distance",
               val |-> inner_distance(call.first, call.second, call.vertex_x)]
    /\ UNCHANGED <<batch_vars, call>>

NextDistance == CallOuterDistance \/ CallInnerDistance

SpecDistance == InitDistance /\ [][NextDistance]_vars

\* ---- process_file ----
ProcessFileCalls == [file : Catalogue, converged : BOOLEAN]

InitProcessFile == Idle /\ pc = "call" /\ call \in ProcessFileCalls /\ ret = Unset

CallProcessFile ==
    /\ pc = "call"
    /\ pc' = "return"
    /\ ret' = [fn |-> "process_file", val |-> process_file(call.file, call.converged)]
    /\ UNCHANGED <<batch_vars, call>>

NextProcessFile == CallProcessFile

SpecProcessFile == InitProcessFile /\ [][NextProcessFile]_vars

(***************************************************************************)
(* Properties                                                              *)
(***************************************************************************)
Returned(fn) == pc = "return" /\ ret.fn = fn

\* the window of w samples starting at 0-based index i, and its fitted slope
Window(s, i, w) == [k \in 1..w |-> s[i + k]]
WindowSlope(x, y, i, w) == polyfit(Window(x, i, w), Window(y, i, w))[1]
WindowStarts(x, w) == 0..(Len(x) - w)
RLeq(p, q) == ~RLess(q, p)

FinishedRun == pc \in {"done", "aborted"}
Reported(g) == \E k \in 1..Len(reports) : reports[k].group = g

\* C1 (as claimed): when the batch run has ended, however the analysis of single
\* files failed, every grouped file has been passed to process_file and every
\* non-empty group has printed its result.
C1_FailureOfOneFileNeverEndsRun ==
    FinishedRun =>
        /\ processed = TotalFiles(grouped_files)
        /\ \A g \in Groups : grouped_files[g] > 0 => Reported(g)

\* some intermediate of the analysis is None
UndefinedIntermediate(l) ==
    \/ l.best_first_y = None \/ l.best_second_y = None
    \/ (l.grad_first # Unset /\ (l.grad_first.pos_x = None \/ l.grad_first.neg_x = None))
    \/ (l.grad_second # Unset /\ (l.grad_second.pos_x = None \/ l.grad_second.neg_x = None))
    \/ l.intersection_pos_first = None \/ l.intersection_neg_first = None
    \/ l.intersection_pos_second = None \/ l.intersection_neg_second = None
    \/ l.outer_left = None \/ l.outer_right = None
    \/ l.inner_left = None \/ l.inner_right = None

\* C2 (as claimed): a process_file call in which a plateau, a gradient segment,
\* an intersection or a ratio is None returns None (skipped) and does not raise.
C2_UndefinedIntermediateIsSkipped ==
    (Returned("process_file") /\ UndefinedIntermediate(ret.val)) =>
        ret.val.status = "skipped"

TooShort(file) == ~file.readable \/ Len(file.rows) < 10

\* C3: process_file on an unreadable file or one of fewer than 10 samples returns
\* None and has called none of the analysis stages.
C3_ShortProfileRejectedBeforeAnyStage ==
    (Returned("process_file") /\ TooShort(call.file)) =>
        /\ ret.val.status = "skipped"
        /\ ret.val.stages = {}

\* a readable two-column file of 9 samples was rejected
C3_Witness ==
    /\ Returned("process_file")
    /\ call.file.readable
    /\ Len(call.file.rows) = 9
    /\ ZipWidth(call.file.rows) = 2
    /\ ret.val.status = "skipped"

\* the first index of the maximum of y
FirstMax(y) == CHOOSE m \in 0..(Len(y) - 1) :
                  /\ \A j \in 0..(Len(y) - 1) : y[j + 1] <= y[m + 1]
                  /\ \A j \in 0..(m - 1) : y[j + 1] < y[m + 1]
CoveringStarts(x, y, w) == {i \in WindowStarts(x, w) : i <= FirstMax(y) /\ FirstMax(y) < i + w}

\* C4: a segment returned by find_horizontal_segment is a window of segment_size
\* consecutive samples of the half-profile that holds the index of the first
\* maximum of y; when no window holds that index, (None, None) is returned.
C4_PlateauHoldsMaximum ==
    (Returned("find_horizontal_segment") /\ ret.val.exc = "none") =>
        /\ (ret.val.ret # <<None, None>> =>
               \E i \in CoveringStarts(call.x, call.y, call.segment_size) :
                   ret.val.ret = <<Arr(Window(call.x, i, call.segment_size)),
                                   Arr(Window(call.y, i, call.segment_size))>>)
        /\ (CoveringStarts(call.x, call.y, call.segment_size) = {} =>
               ret.val.ret = <<None, None>>)

\* a segment was returned although a window without the maximum is flatter
C4_Witness ==
    /\ Returned("find_horizontal_segment")
    /\ ret.val.exc = "none"
    /\ ret.val.ret[1] # None
    /\ \E j \in WindowStarts(call.x, call.segment_size) :
          /\ j \notin CoveringStarts(call.x, call.y, call.segment_size)
          /\ RLess(RAbs(WindowSlope(call.x, call.y, j, call.segment_size)),
                   RAbs(polyfit(ret.val.ret[1].val, ret.val.ret[2].val)[1]))

\* C5 (as claimed): on a half-profile shorter than segment_size, the empty one
\* included, find_horizontal_segment returns (None, None) and does not raise.
C5_ShortHalfReturnsUndefined ==
    (Returned("find_horizontal_segment") /\ Len(call.x) < call.segment_size) =>
        ret.val = Ok(<<None, None>>)

Ratio(p, q, v) ==
    IF p = q THEN RInt(0) ELSE RDiv(RAbs(RSub(p, v)), RAbs(RSub(p, q)))

\* C7 (as claimed): in a successful process_file call, inner_left is the ratio of
\* the first half's negative-slope intersection and inner_right that of the
\* second half's positive-slope intersection.
C7_InnerLeftIsFirstHalfIntersection ==
    (Returned("process_file") /\ ret.val.status = "ok") =>
        /\ ret.val.inner_left =
              Num(Ratio(ret.val.intersection_neg_first.val,
                        ret.val.intersection_pos_second.val, ret.val.vertex_x.val))
        /\ ret.val.inner_right =
              Num(Ratio(ret.val.intersection_pos_second.val,
                        ret.val.intersection_neg_first.val, ret.val.vertex_x.val))

\* the fitted slope of every window, by start index
Slopes(x, y, w) == [i \in WindowStarts(x, w) |-> WindowSlope(x, y, i, w)]

\* window i has the greatest (least) slope and no earlier window equals it
FirstSteepest(slopes, i) ==
    /\ \A j \in DOMAIN slopes : RLeq(slopes[j], slopes[i])
    /\ \A j \in DOMAIN slopes : j < i => slopes[j] # slopes[i]
FirstShallowest(slopes, i) ==
    /\ \A j \in DOMAIN slopes : RLeq(slopes[i], slopes[j])
    /\ \A j \in DOMAIN slopes : j < i => slopes[j] # slopes[i]

GradientReturned ==
    Returned("find_greatest_gradient_segments") /\ Len(call.x) >= call.segment_size

ExtremeSlopeLowestIndex(slopes) ==
    /\ \E i \in DOMAIN slopes :
          /\ FirstSteepest(slopes, i)
          /\ ret.val.pos_x = Arr(Window(call.x, i, call.segment_size))
          /\ ret.val.pos_y = Arr(Window(call.y, i, call.segment_size))
          /\ ret.val.pos_slope = Num(slopes[i])
          /\ ret.val.max_positive_gradient = Num(slopes[i])
    /\ \E i \in DOMAIN slopes :
          /\ FirstShallowest(slopes, i)
          /\ ret.val.neg_x = Arr(Window(call.x, i, call.segment_size))
          /\ ret.val.neg_y = Arr(Window(call.y, i, call.segment_size))
          /\ ret.val.neg_slope = Num(slopes[i])
          /\ ret.val.max_negative_gradient = Num(slopes[i])

\* C8: on a half-profile of at least segment_size samples the steepest-positive
\* output of find_greatest_gradient_segments is the window of greatest fitted
\* slope and the steepest-negative output the window of least fitted slope, in
\* both cases the one of lowest start index among equals.
C8_ExtremeSlopeLowestIndex ==
    GradientReturned =>
        ExtremeSlopeLowestIndex(Slopes(call.x, call.y, call.segment_size))

TiedExtreme(slopes, extreme) ==
    \E i, j \in DOMAIN slopes : i < j /\ Num(slopes[i]) = extreme /\ Num(slopes[j]) = extreme

\* the greatest slope and the least slope are each shared by two windows
C8_Witness ==
    /\ GradientReturned
    /\ ret.val.pos_slope # ret.val.neg_slope
    /\ TiedExtreme(Slopes(call.x, call.y, call.segment_size), ret.val.pos_slope)
    /\ TiedExtreme(Slopes(call.x, call.y, call.segment_size), ret.val.neg_slope)

StrictlyIncreasing(y) == \A k \in 1..(Len(y) - 1) : y[k] < y[k + 1]
SameWindow(r) == r.pos_x = r.neg_x /\ r.pos_y = r.neg_y

\* C9 (as claimed): on a strictly increasing half-profile the steepest-positive
\* and the steepest-negative output are the same window and no segment of
\* negative slope is reported.
C9_IncreasingGivesSameWindow ==
    (GradientReturned /\ StrictlyIncreasing(call.y)) =>
        /\ SameWindow(ret.val)
        /\ (ret.val.neg_slope = None \/ ~RLess(ret.val.neg_slope.val, RInt(0)))

LeastPositiveSlope(slopes) ==
    /\ ret.val.neg_slope # None
    /\ RLess(RInt(0), ret.val.neg_slope.val)
    /\ \E i \in DOMAIN slopes : slopes[i] = ret.val.neg_slope.val
    /\ \A j \in DOMAIN slopes : RLeq(ret.val.neg_slope.val, slopes[j])
    /\ SameWindow(ret.val) <=> \A i, j \in DOMAIN slopes : slopes[i] = slopes[j]

\* C9 (amended): on a strictly increasing half-profile of at least segment_size
\* samples the steepest-negative output has the least fitted slope of all
\* windows, that slope is positive, and the steepest-negative window is the
\* steepest-positive one exactly when all windows have the same fitted slope.
C9_IncreasingGivesLeastPositiveSlope ==
    (GradientReturned /\ StrictlyIncreasing(call.y)) =>
        LeastPositiveSlope(Slopes(call.x, call.y, call.segment_size))

\* a strictly increasing half-profile whose two outputs are different windows
C9_Witness ==
    /\ GradientReturned
    /\ StrictlyIncreasing(call.y)
    /\ ~SameWindow(ret.val)
    /\ RLess(RInt(0), ret.val.neg_slope.val)

Reflect(p, v) == Num(RSub(RMul(RInt(2), v.val), p.val))
DistanceDefined ==
    /\ pc = "return" /\ ret.fn \in {"outer_distance", "inner_distance"}
    /\ call.first # None /\ call.second # None /\ call.vertex_x # None

\* the same function on the intersections mirrored at vertex_x, roles exchanged
ReflectedCall ==
    IF ret.fn = "outer_distance"
    THEN outer_distance(Reflect(call.second, call.vertex_x),
                        Reflect(call.first, call.vertex_x), call.vertex_x)
    ELSE inner_distance(Reflect(call.second, call.vertex_x),
                        Reflect(call.first, call.vertex_x), call.vertex_x)

\* C10 (as claimed): for defined intersections and vertex, outer_distance and
\* inner_distance on the mirrored intersections with roles exchanged return the
\* same (rel_distance_left, rel_distance_right) pair as the original call.
C10_ReflectionGivesSamePair ==
    DistanceDefined => ReflectedCall = ret.val

\* C10 (amended): for defined intersections and vertex, outer_distance and
\* inner_distance on the mirrored intersections with roles exchanged return the
\* pair of the original call with left and right exchanged.
C10_ReflectionExchangesLeftRight ==
    DistanceDefined => ReflectedCall = <<ret.val[2], ret.val[1]>>

\* an outer_distance call with distinct intersections and unequal ratios
C10_Witness ==
    /\ DistanceDefined
    /\ ret.fn = "outer_distance"
    /\ call.first # call.second
    /\ ret.val[1] # ret.val[2]
    /\ ReflectedCall = <<ret.val[2], ret.val[1]>>

IntersectionDefined ==
    /\ Returned("find_intersection_with_horizontal")
    /\ call.pos_slope # None /\ call.pos_slope # Num(RInt(0))
    /\ call.pos_intercept # None
    /\ call.horizontal_y_values # None /\ call.horizontal_y_values # Arr(<<>>)

\* the average of the plateau, as sum / count
PlateauMean(ys) == Rat(SumOver(ys, 1..Len(ys)), Len(ys))

\* the plateau's mean is the line's value at x0
OnLine(x0) ==
    PlateauMean(call.horizontal_y_values.val)
        = RAdd(RMul(call.pos_slope.val, x0), call.pos_intercept.val)

\* C11: for a slope m # 0, an intercept b and a non-empty plateau whose mean
\* is m * x0 + b, find_intersection_with_horizontal returns x0.
C11_IntersectionInvertsLine ==
    IntersectionDefined =>
        \A x0 \in Numbers : OnLine(x0) => ret.val = Ok(Num(x0))

\* a line of non-zero intercept and fractional slope met away from x = 0
C11_Witness ==
    /\ IntersectionDefined
    /\ call.pos_intercept # Num(RInt(0))
    /\ call.pos_slope.val[2] = 2
    /\ \E x0 \in Numbers : x0 # RInt(0) /\ OnLine(x0) /\ ret.val = Ok(Num(x0))

ZeroQuadratic(l) ==
    /\ l.parabola_params \notin {Unset, None}
    /\ l.parabola_params.val[1] = RInt(0)

\* C12 (as claimed): a fit whose quadratic coefficient a is 0 is returned by
\* fit_parabola as (None, None, None), so that a process_file call never holds
\* an infinite or NaN vertex_x.
C12_ZeroQuadraticIsFailedFit ==
    Returned("process_file") =>
        /\ ~ZeroQuadratic(ret.val)
        /\ ret.val.vertex_x \notin {Inf, NaN}

\* the samples of x with 0-based index < k, and those with index >= k
Before(x, k) == [i \in 1..Max2(0, Min2(Len(x), k)) |-> x[i]]
From(x, k) == [i \in 1..(Len(x) - Max2(0, Min2(Len(x), k))) |-> x[Max2(0, Min2(Len(x), k)) + i]]

\* C13 (as claimed): in a process_file call that passed the valley stage with
\* split index s, the first half is exactly the samples of index < s - 6 and
\* the second half exactly those of index >= s + 6.
C13_HalvesExcludeValleyZone ==
    (Returned("process_file") /\ "find_horizontal_segment" \in ret.val.stages) =>
        /\ ret.val.first_half_x = Before(ret.val.x, ret.val.split_index - 6)
        /\ ret.val.first_half_y = Before(ret.val.y, ret.val.split_index - 6)
        /\ ret.val.second_half_x = From(ret.val.x, ret.val.split_index + 6)
        /\ ret.val.second_half_y = From(ret.val.y, ret.val.split_index + 6)

\* C14: on a half-profile of at least segment_size samples (and at least one)
\* find_horizontal_segment returns a segment: some window holds the maximum
\* wherever it lies, and (None, None) is returned only below segment_size.
C14_LongHalfAlwaysHasPlateau ==
    Returned("find_horizontal_segment") =>
        /\ (Len(call.x) >= call.segment_size /\ Len(call.x) > 0) =>
              /\ CoveringStarts(call.x, call.y, call.segment_size) # {}
              /\ ret.val.exc = "none"
              /\ ret.val.ret[1] # None /\ ret.val.ret[2] # None
        /\ (ret.val.exc = "none" /\ ret.val.ret = <<None, None>>) =>
              Len(call.x) < call.segment_size

\* the maximum is the last sample of a half longer than the window
C14_Witness ==
    /\ Returned("find_horizontal_segment")
    /\ Len(call.x) > call.segment_size
    /\ FirstMax(call.y) = Len(call.y) - 1
    /\ ret.val.exc = "none"
    /\ ret.val.ret[2] = Arr(Window(call.y, Len(call.y) - call.segment_size, call.segment_size))

Between(v, p, q) == (RLeq(p, v) /\ RLeq(v, q)) \/ (RLeq(q, v) /\ RLeq(v, p))
One == RInt(1)

====
